---- MODULE Spec2Model ----
(***************************************************************************)
(* A model of the pylint socket service:                                   *)
(*   src/app/pylint_service/pylint_service.py  (delimiter framing)         *)
(*   src/app/pylint_service.py                 (fixed-header framing)      *)
(* Strings are sequences of one-character strings; bytes on the wire are   *)
(* sequences of byte names.                                                *)
(***************************************************************************)
EXTENDS Integers, Sequences, FiniteSets, TLC

\* ------------------------------------------------------------------------
\* Bounds of the model
\* ------------------------------------------------------------------------
\* longest IP_ADDRESS environment string explored
MaxIpLen == 2
\* longest PORT environment string explored
MaxPortLen == 3
\* number of threads running at once
NumThreads == 2
\* most pieces a request text is put together from
MaxPieces == 3

\* ------------------------------------------------------------------------
\* Generic helpers
\* ------------------------------------------------------------------------
\* Python's None, where a string may stand: a sequence no string equals
None == <<"None">>

\* no outcome yet
Pending == [kind |-> "pending"]

\* all sequences over S of length at most n
SeqsUpTo(S, n) == UNION {[1..k -> S] : k \in 0..n}

\* ------------------------------------------------------------------------
\* check_vars_environment
\* ------------------------------------------------------------------------
\* characters an IP_ADDRESS value is drawn from (space and tab are whitespace)
IpChars == {" ", "\t", "1", "."}
\* characters a PORT value is drawn from; "sup2" is the superscript two
\* U+00B2, for which str.isdigit() is True and int() raises ValueError
PortChars == {"0", "1", "8", "-", "a", "sup2"}

WhitespaceChars == {" ", "\t", "\n"}
DecimalDigits == {"0", "1", "2", "3", "4", "5", "6", "7", "8", "9"}

\* str.split() with no argument: the maximal runs of non-whitespace
RECURSIVE SplitFrom(_, _, _)
SplitFrom(s, i, cur) ==
    IF i > Len(s)
    THEN IF cur = <<>> THEN <<>> ELSE <<cur>>
    ELSE IF s[i] \in WhitespaceChars
         THEN (IF cur = <<>> THEN <<>> ELSE <<cur>>) \o SplitFrom(s, i + 1, <<>>)
         ELSE SplitFrom(s, i + 1, Append(cur, s[i]))

str_split(s) == SplitFrom(s, 1, <<>>)

\* str.isdigit(): non-empty and every character has the Unicode digit property
str_isdigit(s) == Len(s) > 0 /\ \A i \in 1..Len(s) : s[i] \in DecimalDigits \cup {"sup2"}

DigitValue(c) ==
    CASE c = "0" -> 0 [] c = "1" -> 1 [] c = "2" -> 2 [] c = "3" -> 3
      [] c = "4" -> 4 [] c = "5" -> 5 [] c = "6" -> 6 [] c = "7" -> 7
      [] c = "8" -> 8 [] c = "9" -> 9

\* int(s) accepts decimal digits only (sign and blanks never pass isdigit)
IntParses(s) == Len(s) > 0 /\ \A i \in 1..Len(s) : s[i] \in DecimalDigits

RECURSIVE IntValue(_)
IntValue(s) ==
    IF s = <<>> THEN 0
    ELSE 10 * IntValue(SubSeq(s, 1, Len(s) - 1)) + DigitValue(s[Len(s)])

Returned(v) == [kind |-> "return", value |-> v]
Raised(e) == [kind |-> "raise", exc |-> e]

StatusEnvironmentVariable(st, p, ip) == [status |-> st, PORT |-> p, IP_ADDRESS |-> ip]

DefaultPort == 5000
DefaultIp == <<"0", ".", "0", ".", "0", ".", "0">>

\* as EnvTryBody, handing back the address without the blanks around it
EnvTryBody_StripsAddress(ip_address, port) ==
    IF ip_address = None \/ str_split(ip_address) = <<>>
    THEN Raised("EnvironmentVariableError")
    ELSE IF port = None \/ ~str_isdigit(port)
    THEN Raised("EnvironmentVariableError")
    ELSE IF ~IntParses(port)
    THEN Raised("ValueError")
    ELSE IF IntValue(port) <= 0
    THEN Raised("EnvironmentVariableError")
    ELSE Returned(StatusEnvironmentVariable(TRUE, IntValue(port), str_split(ip_address)[1]))

\* the try body of check_vars_environment
EnvTryBody(ip_address, port) ==
    IF ip_address = None \/ str_split(ip_address) = <<>>
    THEN Raised("EnvironmentVariableError")
    ELSE IF port = None \/ ~str_isdigit(port)
    THEN Raised("EnvironmentVariableError")
    ELSE IF ~IntParses(port)
    THEN Raised("ValueError")
    ELSE IF IntValue(port) <= 0
    THEN Raised("EnvironmentVariableError")
    ELSE Returned(StatusEnvironmentVariable(TRUE, IntValue(port), ip_address))

\* an except clause that names EnvironmentVariableError alone
EnvCaught_WithoutValueError == {"EnvironmentVariableError"}

\* the exceptions the except clause of check_vars_environment names
EnvCaught == {"EnvironmentVariableError", "ValueError"}

check_vars_environment(ip_address, port) ==
    LET r == EnvTryBody(ip_address, port)
    IN  IF r.kind = "raise" /\ r.exc \in EnvCaught
        THEN Returned(StatusEnvironmentVariable(FALSE, DefaultPort, DefaultIp))
        ELSE r

\* ------------------------------------------------------------------------
\* run_pylint
\* ------------------------------------------------------------------------
Threads == 1..NumThreads

\* the exception classes that are OSError (socket.error is OSError)
OSErrors == {"OSError", "FileNotFoundError", "ConnectionResetError", "BrokenPipeError"}

\* the sources of the tests, each one opaque text, and a text holding a lone
\* surrogate, which str.encode('utf-8') refuses
EmptyCode == <<>>
ValidCode == <<"def add(a, b):\n    return a + b\n">>
InvalidCode == <<"def add(a,b):\nreturn a + b\n">>
SurrogateCode == <<"\\ud800">>
DirectSources == {EmptyCode, ValidCode, InvalidCode, SurrogateCode}

\* file_content.encode('utf-8') raises UnicodeEncodeError on a lone surrogate
EncodeFails(content) == \E i \in 1..Len(content) : content[i] = "\\ud800"

\* markers of the report of the lint tool
RatingMarker == "Your code has been rated at"
SyntaxErrorMarker == "syntax-error"
ConventionMarker == "missing-docstring"

\* the exit status of pylint is the bit-or of the categories it reported
ExitStatus(msgs) ==
    (IF "error" \in msgs THEN 2 ELSE 0) + (IF "convention" \in msgs THEN 16 ELSE 0)

\* pylint writes its report, messages then rating line, to standard output
PylintReport(msgs) ==
    [returncode |-> ExitStatus(msgs),
     stdout |-> (IF "error" \in msgs THEN <<SyntaxErrorMarker>> ELSE <<>>)
                \o (IF "convention" \in msgs THEN <<ConventionMarker>> ELSE <<>>)
                \o <<RatingMarker>>,
     stderr |-> <<>>]

\* pylint stopped by an internal failure: a traceback on standard error
PylintCrash == [returncode |-> 1, stdout |-> <<>>, stderr |-> <<"Traceback">>]

\* what subprocess.run can give back for a file holding content
ToolOutcomes(content) ==
    CASE content = EmptyCode -> {PylintReport({})}
      [] content = ValidCode -> {PylintReport({"convention"})}
      [] content = InvalidCode -> {PylintReport({"error"})}
      [] OTHER -> {PylintReport({}), PylintReport({"error"}), PylintCrash}

\* temp_file_path = '' and no file object
NoPath == 0

\* the except clause of run_pylint
RpCaught == {"CalledProcessError"}

\* an exception raised in the try body of run_pylint: what the function will
\* leave with once its finally clause has run
RpOnRaise(exc) ==
    IF exc \in RpCaught
    THEN Returned(<<"Error running Pylint: ", exc>>)
    ELSE Raised(exc)

\* a selection that ignores the exit status
RpSelect_AlwaysStdout(result) == Returned(result.stdout)

\* result selection of run_pylint
RpSelect(result) ==
    IF result.returncode # 0 THEN Returned(result.stderr) ELSE Returned(result.stdout)

\* a naming scheme that hands out one fixed name
FreshName_Fixed(files) == 1

\* the name NamedTemporaryFile gives its file: one that no existing file has
\* (the file is opened with O_EXCL). Names are interchangeable, the least
\* unused one stands for any unused one
FreshName(files) ==
    CHOOSE n \in 1..(Cardinality(DOMAIN files) + 1) :
        n \notin DOMAIN files /\ \A m \in 1..(n - 1) : m \in DOMAIN files

\* the finally clause of run_pylint on the filesystem
RpRemove(files, temp_file_path) ==
    IF temp_file_path # NoPath /\ temp_file_path \in DOMAIN files
    THEN [n \in DOMAIN files \ {temp_file_path} |-> files[n]]
    ELSE files

RpIdle ==
    [pc |-> "idle", file_content |-> <<>>, temp_file |-> NoPath,
     temp_file_path |-> NoPath, result |-> Pending, pend |-> Pending, out |-> Pending]

\* ------------------------------------------------------------------------
\* handle_client: bytes, text and framing
\* ------------------------------------------------------------------------
\* delimiter = '<<EOF>>'
Delimiter == <<"<", "<", "E", "O", "F", ">", ">">>

\* recv(4096) of the delimiter variant, and buffer_size of the fixed variant
RecvBufSize == 4096
\* recv(1024) in the loop of the fixed variant
RecvChunkSize == 1024

\* the pieces requests are put together from; an ASCII byte is named by its
\* character, xC3 xA9 is the UTF-8 encoding of one two-byte character
Pieces ==
    { <<"xC3", "xA9", "\n">>,
      Delimiter,
      <<"<", "<", "E", "O", "F">>,
      <<">", ">">> }

RECURSIVE Flatten(_)
Flatten(ss) == IF ss = <<>> THEN <<>> ELSE Head(ss) \o Flatten(Tail(ss))

\* the request texts a client sends
Texts == {Flatten(ps) : ps \in SeqsUpTo(Pieces, MaxPieces)}

Min(a, b) == IF a <= b THEN a ELSE b

\* bytes.decode('utf-8') raises UnicodeDecodeError unless every lead byte is
\* followed by its continuation byte and every continuation byte follows one
Utf8Valid(data) ==
    \A i \in 1..Len(data) :
        /\ data[i] = "xC3" => (i < Len(data) /\ data[i + 1] = "xA9")
        /\ data[i] = "xA9" => (i > 1 /\ data[i - 1] = "xC3")

RECURSIVE Utf8Decode(_)
Utf8Decode(data) ==
    IF data = <<>> THEN <<>>
    ELSE IF Head(data) = "xC3"
         THEN <<"e_acute">> \o Utf8Decode(SubSeq(data, 3, Len(data)))
         ELSE <<Head(data)>> \o Utf8Decode(Tail(data))

\* sub in s
Contains(s, sub) ==
    \E i \in 1..(Len(s) - Len(sub) + 1) : SubSeq(s, i, i + Len(sub) - 1) = sub

\* s.replace(old, '', 1): the first occurrence alone is dropped
RECURSIVE str_replace_first(_, _)
str_replace_first(s, old) ==
    IF Len(s) < Len(old) THEN s
    ELSE IF SubSeq(s, 1, Len(old)) = old
         THEN SubSeq(s, Len(old) + 1, Len(s))
         ELSE <<Head(s)>> \o str_replace_first(Tail(s), old)

\* s.replace(old, ''): left to right, each occurrence found is dropped and the
\* scan goes on behind it
RECURSIVE str_replace(_, _)
str_replace(s, old) ==
    IF Len(s) < Len(old) THEN s
    ELSE IF SubSeq(s, 1, Len(old)) = old
         THEN str_replace(SubSeq(s, Len(old) + 1, Len(s)), old)
         ELSE <<Head(s)>> \o str_replace(Tail(s), old)

\* s.strip()
RECURSIVE str_lstrip(_)
str_lstrip(s) ==
    IF s # <<>> /\ Head(s) \in WhitespaceChars THEN str_lstrip(Tail(s)) ELSE s

RECURSIVE str_rstrip(_)
str_rstrip(s) ==
    IF s # <<>> /\ s[Len(s)] \in WhitespaceChars
    THEN str_rstrip(SubSeq(s, 1, Len(s) - 1)) ELSE s

str_strip(s) == str_rstrip(str_lstrip(s))

\* buffer = data
Accumulate_Overwrites(buffer, data) == data

\* buffer += data
Accumulate(buffer, data) == buffer \o data

\* while delimiter not in buffer
LoopGoesOn(buffer) == ~Contains(buffer, Delimiter)

\* file_content = buffer.replace(delimiter, '')
CleanDelimiter(buffer) == str_replace(buffer, Delimiter)

\* a handler whose close is not in a finally clause: an exception that is
\* not caught ends it at once
HAfterRaise_WithoutFinally(exc) == IF exc \in OSErrors THEN "except" ELSE "done"

\* except socket.error of handle_client: where control goes when exc is
\* raised in the try body
HAfterRaise(exc) == IF exc \in OSErrors THEN "except" ELSE "finally"

\* an exception raised in the except clause leaves through the finally clause
HAfterRaiseInExcept == "finally"

\* a handler that reads again once it has acknowledged
HAfterAck_ReceivesAgain == "loop"

\* after the acknowledgement is sent: the call of run_pylint
HAfterAck == "call"

\* a handler that gives up when the peer closes: if not data: return
HAfterBreak_Returns == "finally"

\* if not data: break, in the delimiter variant: the statement after the loop
HAfterBreak == "clean"

HStart(v) ==
    [pc |-> IF v = "delimiter" THEN "loop" ELSE "name",
     buffer |-> <<>>, file_name |-> <<>>, file_content |-> <<>>,
     pylint_output |-> <<>>, pend |-> Pending, out |-> Pending]

HOff == [HStart("delimiter") EXCEPT !.pc = "off"]

NoConn == [request |-> <<>>, wire |-> <<>>, peerClosed |-> FALSE, sent |-> <<>>]

\* a client that has connected and sends req
Connected(req) == [NoConn EXCEPT !.request = req, !.wire = req]

\* b"Analyzing file... " and f"Server error: {error}"
AckMessage == <<"Analyzing file... ">>
ServerErrorMessage(exc) == <<"Server error: ", exc>>

\* start_server before it is called: no listening socket
SrvOff ==
    [pc |-> "off", sock |-> "none", accepted |-> 0, left |-> Pending, out |-> Pending]

VARIABLES
    envIP,      \* os.getenv('IP_ADDRESS'): None or a string
    envPORT,    \* os.getenv('PORT'): None or a string
    envOut,     \* outcome of check_vars_environment, Pending before the call
    mode,       \* per thread: "direct" calls run_pylint, "handler" runs handle_client, "off"
    rp,         \* per thread: the frame of its run_pylint invocation
    fs,         \* the temporary directory: file name -> content
    created,    \* number of temporary files created so far
    variant,    \* per thread: which handle_client runs, "delimiter" or "fixed"
    conn,       \* per thread: the bytes its client sends, those not yet received,
                \* and whether the client has closed its side
    h,          \* per thread: the frame of handle_client
    events,     \* per thread: what the handler did on its socket, in order
    srv         \* the frame of start_server and the state of its listening socket

envVars == <<envIP, envPORT, envOut>>
runVars == <<mode, rp, fs, created>>
handlerVars == <<variant, conn, h, events>>
serverVars == <<srv>>
vars == <<envVars, runVars, handlerVars, serverVars>>

EnvIdle == envIP = None /\ envPORT = None /\ envOut = Pending
RunIdle == mode = [t \in Threads |-> "off"] /\ rp = [t \in Threads |-> RpIdle]
           /\ fs = <<>> /\ created = 0
HandlerIdle == /\ variant = [t \in Threads |-> "delimiter"]
               /\ conn = [t \in Threads |-> NoConn]
               /\ h = [t \in Threads |-> HOff]
               /\ events = [t \in Threads |-> <<>>]
ServerIdle == srv = SrvOff

EnvInit ==
    /\ envIP \in {None} \cup SeqsUpTo(IpChars, MaxIpLen)
    /\ envPORT \in {None} \cup SeqsUpTo(PortChars, MaxPortLen)
    /\ envOut = Pending
    /\ RunIdle
    /\ HandlerIdle
    /\ ServerIdle

CallCheckVarsEnvironment ==
    /\ envOut = Pending
    /\ envOut' = check_vars_environment(envIP, envPORT)
    /\ UNCHANGED <<envIP, envPORT, runVars, handlerVars, serverVars>>

NextEnv == CallCheckVarsEnvironment

SpecEnv == EnvInit /\ [][NextEnv]_vars

\* --- the steps of run_pylint, thread t ---

\* entry: temp_file_path = ''
RpEnter(t, content) ==
    rp' = [rp EXCEPT ![t] = [RpIdle EXCEPT !.pc = "create", !.file_content = content]]

\* tempfile.NamedTemporaryFile(delete=False, suffix=".py"): a new file under a
\* name no file has, or OSError
RpCreate(t) ==
    /\ rp[t].pc = "create"
    /\ \/ LET name == FreshName(fs)
          IN  /\ fs' = [n \in DOMAIN fs \cup {name} |-> IF n = name THEN <<>> ELSE fs[n]]
              /\ created' = created + 1
              /\ rp' = [rp EXCEPT ![t].pc = "write", ![t].temp_file = name]
       \/ /\ rp' = [rp EXCEPT ![t].pc = "finally", ![t].pend = RpOnRaise("OSError")]
          /\ UNCHANGED <<fs, created>>
    /\ UNCHANGED <<envVars, serverVars, mode, handlerVars>>

\* temp_file.write(file_content.encode('utf-8')); temp_file_path = temp_file.name
\* encode or write may raise: the with statement closes the file and the
\* assignment of temp_file_path is not reached. The close that ends the with
\* statement may raise too, temp_file_path then being set
RpWrite(t) ==
    /\ rp[t].pc = "write"
    /\ \/ /\ EncodeFails(rp[t].file_content)
          /\ rp' = [rp EXCEPT ![t].pc = "finally", ![t].pend = RpOnRaise("UnicodeEncodeError")]
          /\ UNCHANGED fs
       \/ /\ ~EncodeFails(rp[t].file_content)
          /\ rp' = [rp EXCEPT ![t].pc = "finally", ![t].pend = RpOnRaise("OSError")]
          /\ UNCHANGED fs
       \/ /\ ~EncodeFails(rp[t].file_content)
          /\ fs' = [fs EXCEPT ![rp[t].temp_file] = rp[t].file_content]
          /\ rp' = [rp EXCEPT ![t].pc = "run", ![t].temp_file_path = rp[t].temp_file]
       \/ /\ ~EncodeFails(rp[t].file_content)
          /\ UNCHANGED fs
          /\ rp' = [rp EXCEPT ![t].pc = "finally", ![t].temp_file_path = rp[t].temp_file,
                              ![t].pend = RpOnRaise("OSError")]
    /\ UNCHANGED <<envVars, serverVars, mode, created, handlerVars>>

\* subprocess.run(["pylint", temp_file_path], capture_output=True, text=True):
\* the launch raises FileNotFoundError, or the tool reads the file and
\* run_pylint returns result.stderr or result.stdout
RpRun(t) ==
    /\ rp[t].pc = "run"
    /\ \/ \E res \in ToolOutcomes(fs[rp[t].temp_file_path]) :
             rp' = [rp EXCEPT ![t].pc = "finally", ![t].result = res,
                              ![t].pend = RpSelect(res)]
       \/ rp' = [rp EXCEPT ![t].pc = "finally", ![t].pend = RpOnRaise("FileNotFoundError")]
    /\ UNCHANGED <<envVars, serverVars, mode, fs, created, handlerVars>>

\* finally: remove the file when temp_file_path is set and the file exists;
\* control leaves run_pylint
RpFinally(t) ==
    /\ rp[t].pc = "finally"
    /\ fs' = RpRemove(fs, rp[t].temp_file_path)
    /\ rp' = [rp EXCEPT ![t].pc = "left", ![t].out = rp[t].pend]
    /\ UNCHANGED <<envVars, serverVars, mode, created, handlerVars>>

\* a direct call of run_pylint, as the tests make
DirectCall(t) ==
    /\ mode[t] = "direct"
    /\ rp[t].pc = "idle"
    /\ \E content \in DirectSources : RpEnter(t, content)
    /\ UNCHANGED <<envVars, serverVars, mode, fs, created, handlerVars>>

RunInit ==
    /\ EnvIdle
    /\ HandlerIdle
    /\ ServerIdle
    /\ mode = [t \in Threads |-> "direct"]
    /\ rp = [t \in Threads |-> RpIdle]
    /\ fs = <<>>
    /\ created = 0

NextRun ==
    \E t \in Threads :
        \/ DirectCall(t)
        \/ RpCreate(t)
        \/ RpWrite(t)
        \/ RpRun(t)
        \/ RpFinally(t)

SpecRun == RunInit /\ [][NextRun]_vars

\* --- the steps of handle_client, thread t ---

Exc(e, origin) == [kind |-> "raise", exc |-> e, origin |-> origin]

\* the record of what the handler did on its socket; a run of recv calls is
\* recorded once
Log(t, e) ==
    events' = [events EXCEPT ![t] =
                  IF e = "recv" /\ @ # <<>> /\ @[Len(@)] = "recv" THEN @ ELSE Append(@, e)]

\* client_socket.sendall(msg): the client gets msg
Send(t, msg) == conn' = [conn EXCEPT ![t].sent = Append(@, msg)]

\* the bytes of one recv are taken off the connection
Take(t, n) == conn' = [conn EXCEPT ![t].wire = SubSeq(@, n + 1, Len(@))]

\* exc raised in the try body of handle_client
HRaise(t, exc, origin) ==
    h' = [h EXCEPT ![t].pc = HAfterRaise(exc), ![t].pend = Exc(exc, origin)]

\* delimiter variant: one pass of
\*   while delimiter not in buffer:
\*       data = client_socket.recv(4096).decode('utf-8')
\*       if not data: break
\*       buffer += data
HRecvDelimiter(t) ==
    /\ mode[t] = "handler" /\ variant[t] = "delimiter"
    /\ h[t].pc = "loop"
    /\ \/ \E n \in 1..Min(Len(conn[t].wire), RecvBufSize) :
             LET data == SubSeq(conn[t].wire, 1, n)
                 buffer == Accumulate(h[t].buffer, Utf8Decode(data))
             IN  /\ Take(t, n)
                 /\ IF Utf8Valid(data)
                    THEN h' = [h EXCEPT ![t].buffer = buffer,
                                        ![t].pc = IF LoopGoesOn(buffer) THEN "loop" ELSE "clean"]
                    ELSE HRaise(t, "UnicodeDecodeError", "decode")
       \/ /\ conn[t].wire = <<>> /\ conn[t].peerClosed
          /\ h' = [h EXCEPT ![t].pc = HAfterBreak]
          /\ UNCHANGED conn
       \/ /\ HRaise(t, "ConnectionResetError", "recv")
          /\ UNCHANGED conn
    /\ Log(t, "recv")
    /\ UNCHANGED <<envVars, serverVars, runVars, variant>>

\* delimiter variant: file_content = buffer.replace(delimiter, '') and the
\* first call pylint_output = run_pylint(file_content)
HClean(t) ==
    /\ mode[t] = "handler" /\ variant[t] = "delimiter"
    /\ h[t].pc = "clean"
    /\ LET file_content == CleanDelimiter(h[t].buffer)
       IN  /\ h' = [h EXCEPT ![t].file_content = file_content, ![t].pc = "in_call1"]
           /\ RpEnter(t, file_content)
    /\ Log(t, "analysis")
    /\ UNCHANGED <<envVars, serverVars, mode, fs, created, variant, conn>>

\* fixed variant: file_name = client_socket.recv(buffer_size).decode().strip()
HRecvName(t) ==
    /\ mode[t] = "handler" /\ variant[t] = "fixed"
    /\ h[t].pc = "name"
    /\ \/ \E n \in 1..Min(Len(conn[t].wire), RecvBufSize) :
             LET data == SubSeq(conn[t].wire, 1, n)
             IN  /\ Take(t, n)
                 /\ IF Utf8Valid(data)
                    THEN h' = [h EXCEPT ![t].file_name = str_strip(Utf8Decode(data)),
                                        ![t].pc = "loop"]
                    ELSE HRaise(t, "UnicodeDecodeError", "decode")
       \/ /\ conn[t].wire = <<>> /\ conn[t].peerClosed
          /\ h' = [h EXCEPT ![t].file_name = <<>>, ![t].pc = "loop"]
          /\ UNCHANGED conn
       \/ /\ HRaise(t, "ConnectionResetError", "recv")
          /\ UNCHANGED conn
    /\ Log(t, "recv")
    /\ UNCHANGED <<envVars, serverVars, runVars, variant>>

\* fixed variant: one pass of
\*   while True:
\*       data = client_socket.recv(1024)
\*       if not data: break
\*       file_content += data.decode()
HRecvFixed(t) ==
    /\ mode[t] = "handler" /\ variant[t] = "fixed"
    /\ h[t].pc = "loop"
    /\ \/ \E n \in 1..Min(Len(conn[t].wire), RecvChunkSize) :
             LET data == SubSeq(conn[t].wire, 1, n)
             IN  /\ Take(t, n)
                 /\ IF Utf8Valid(data)
                    THEN h' = [h EXCEPT ![t].file_content =
                                            Accumulate(@, Utf8Decode(data))]
                    ELSE HRaise(t, "UnicodeDecodeError", "decode")
       \/ /\ conn[t].wire = <<>> /\ conn[t].peerClosed
          /\ h' = [h EXCEPT ![t].pc = "ack"]
          /\ UNCHANGED conn
       \/ /\ HRaise(t, "ConnectionResetError", "recv")
          /\ UNCHANGED conn
    /\ Log(t, "recv")
    /\ UNCHANGED <<envVars, serverVars, runVars, variant>>

\* client_socket.sendall(b"Analyzing file... ")
HAck(t) ==
    /\ mode[t] = "handler"
    /\ h[t].pc = "ack"
    /\ \/ /\ h' = [h EXCEPT ![t].pc = HAfterAck]
          /\ Send(t, AckMessage)
          /\ Log(t, "ack")
       \/ /\ HRaise(t, "BrokenPipeError", "send")
          /\ Log(t, "send_failed")
          /\ UNCHANGED conn
    /\ UNCHANGED <<envVars, serverVars, runVars, variant>>

\* pylint_output = run_pylint(file_content), after the acknowledgement
HCall(t) ==
    /\ mode[t] = "handler"
    /\ h[t].pc = "call"
    /\ h' = [h EXCEPT ![t].pc = "in_call2"]
    /\ RpEnter(t, h[t].file_content)
    /\ Log(t, "analysis")
    /\ UNCHANGED <<envVars, serverVars, mode, fs, created, variant, conn>>

\* run_pylint comes back to the handler, with its value or with the
\* exception it let through, and its frame is gone
HReturn(t) ==
    /\ mode[t] = "handler"
    /\ h[t].pc \in {"in_call1", "in_call2"}
    /\ rp[t].pc = "left"
    /\ IF rp[t].out.kind = "raise"
       THEN HRaise(t, rp[t].out.exc, "run_pylint")
       ELSE h' = [h EXCEPT ![t].pylint_output = rp[t].out.value,
                           ![t].pc = IF h[t].pc = "in_call1" THEN "ack" ELSE "send"]
    /\ rp' = [rp EXCEPT ![t] = RpIdle]
    /\ UNCHANGED <<envVars, serverVars, mode, fs, created, variant, conn, events>>

\* client_socket.sendall(pylint_output.encode())
HSendResult(t) ==
    /\ mode[t] = "handler"
    /\ h[t].pc = "send"
    /\ \/ /\ h' = [h EXCEPT ![t].pc = "finally"]
          /\ Send(t, h[t].pylint_output)
          /\ Log(t, "result")
       \/ /\ HRaise(t, "BrokenPipeError", "send")
          /\ Log(t, "send_failed")
          /\ UNCHANGED conn
    /\ UNCHANGED <<envVars, serverVars, runVars, variant>>

\* except socket.error: client_socket.sendall(f"Server error: {error}".encode())
HExcept(t) ==
    /\ mode[t] = "handler"
    /\ h[t].pc = "except"
    /\ \/ /\ h' = [h EXCEPT ![t].pc = "finally", ![t].pend = Pending]
          /\ Send(t, ServerErrorMessage(h[t].pend.exc))
          /\ Log(t, "errmsg")
       \/ /\ h' = [h EXCEPT ![t].pc = HAfterRaiseInExcept,
                            ![t].pend = Exc("BrokenPipeError", "send")]
          /\ Log(t, "send_failed")
          /\ UNCHANGED conn
    /\ UNCHANGED <<envVars, serverVars, runVars, variant>>

\* finally: client_socket.close(); the handler ends, with the exception
\* that is still pending if there is one
HFinally(t) ==
    /\ mode[t] = "handler"
    /\ h[t].pc = "finally"
    /\ h' = [h EXCEPT ![t].pc = "done",
                      ![t].out = IF h[t].pend = Pending THEN Returned(None) ELSE h[t].pend]
    /\ Log(t, "close")
    /\ UNCHANGED <<envVars, serverVars, runVars, variant, conn>>

\* the client closes its side once its bytes are sent; the handler can see it
\* only in a recv that finds nothing left to read
PeerClose(t) ==
    /\ mode[t] = "handler"
    /\ h[t].pc \in {"loop", "name"}
    /\ conn[t].wire = <<>> /\ ~conn[t].peerClosed
    /\ conn' = [conn EXCEPT ![t].peerClosed = TRUE]
    /\ UNCHANGED <<envVars, serverVars, runVars, variant, h, events>>

\* one connection, handled by thread 1: any request; a text whose last piece
\* is the delimiter is a terminated request
Requests == Texts

HandlerInit ==
    /\ EnvIdle
    /\ ServerIdle
    /\ mode = [t \in Threads |-> IF t = 1 THEN "handler" ELSE "off"]
    /\ rp = [t \in Threads |-> RpIdle]
    /\ fs = <<>>
    /\ created = 0
    /\ \E v \in {"delimiter", "fixed"} :
          /\ variant = [t \in Threads |-> v]
          /\ h = [t \in Threads |-> IF t = 1 THEN HStart(v) ELSE HOff]
    /\ \E req \in Requests :
          conn = [t \in Threads |->
                     IF t = 1 THEN Connected(req) ELSE NoConn]
    /\ events = [t \in Threads |-> <<>>]

NextHandler ==
    \E t \in Threads :
        \/ HRecvDelimiter(t)
        \/ HClean(t)
        \/ HRecvName(t)
        \/ HRecvFixed(t)
        \/ HAck(t)
        \/ HCall(t)
        \/ HReturn(t)
        \/ HSendResult(t)
        \/ HExcept(t)
        \/ HFinally(t)
        \/ PeerClose(t)
        \/ RpCreate(t)
        \/ RpWrite(t)
        \/ RpRun(t)
        \/ RpFinally(t)

SpecHandler == HandlerInit /\ [][NextHandler]_vars

\* --- the steps of start_server ---

\* the handler threads start_server has started
Started == {t \in Threads : mode[t] = "handler"}

\* a server that joins every thread it has started
Joined_All(started) == started

\* the threads start_server waits for before it accepts again: it calls
\* start() and never join()
Joined(started) == {}

\* an exception that leaves the target of a thread comes up in the thread
\* that started it
ThreadExit_RaisesInServer(server, out) ==
    IF out.kind = "raise" /\ server.pc = "accept"
    THEN [server EXCEPT !.pc = "stopped", !.sock = "closed", !.left = out, !.out = out]
    ELSE server

\* threading.Thread: an exception that leaves handle_client ends its thread,
\* the traceback is printed and the thread that started it is not touched
ThreadExit(server, out) == server

\* the requests of the clients of a running server
ServerRequests == {<<>>, <<">", ">">>}

\* env_vars = check_vars_environment()
SCheckEnv ==
    /\ srv.pc = "env"
    /\ envOut' = check_vars_environment(envIP, envPORT)
    /\ srv' = [srv EXCEPT !.pc = "socket"]
    /\ UNCHANGED <<envIP, envPORT, runVars, handlerVars>>

\* exc raised in start_server outside its try statement: it leaves the
\* function at once
SLeave(exc, origin) ==
    srv' = [srv EXCEPT !.pc = "stopped", !.left = Exc(exc, origin), !.out = Exc(exc, origin)]

\* server_socket = socket.socket(socket.AF_INET, socket.SOCK_STREAM)
SSocket ==
    /\ srv.pc = "socket"
    /\ \/ srv' = [srv EXCEPT !.pc = "bind", !.sock = "created"]
       \/ SLeave("OSError", "socket")
    /\ UNCHANGED <<envVars, runVars, handlerVars>>

\* server_socket.bind((env_vars.IP_ADDRESS, env_vars.PORT))
SBind ==
    /\ srv.pc = "bind"
    /\ \/ srv' = [srv EXCEPT !.pc = "listen", !.sock = "bound"]
       \/ \E exc \in {"OSError", "KeyboardInterrupt"} : SLeave(exc, "bind")
    /\ UNCHANGED <<envVars, runVars, handlerVars>>

\* server_socket.listen(5)
SListen ==
    /\ srv.pc = "listen"
    /\ \/ srv' = [srv EXCEPT !.pc = "accept", !.sock = "listening"]
       \/ \E exc \in {"OSError", "KeyboardInterrupt"} : SLeave(exc, "listen")
    /\ UNCHANGED <<envVars, runVars, handlerVars>>

\* the accept loop is at server_socket.accept()
AtAccept == srv.pc = "accept" /\ \A t \in Joined(Started) : h[t].pc = "exited"

\* client_socket, addr = server_socket.accept()
\* threading.Thread(target=handle_client, args=(client_socket, addr)).start()
\* the connection accepted is given to a new thread, which starts in
\* handle_client, and the loop is at accept again
SAccept ==
    /\ AtAccept
    /\ srv.accepted < NumThreads
    /\ LET t == srv.accepted + 1
       IN  \E req \in ServerRequests :
               /\ conn' = [conn EXCEPT ![t] = Connected(req)]
               /\ h' = [h EXCEPT ![t] = HStart(variant[t])]
               /\ mode' = [mode EXCEPT ![t] = "handler"]
    /\ srv' = [srv EXCEPT !.accepted = @ + 1]
    /\ UNCHANGED <<envVars, rp, fs, created, variant, events>>

\* accept is left by an exception: KeyboardInterrupt is caught by the except
\* clause, any other one goes on after the finally clause; in both cases
\* finally: server_socket.close()
SAcceptRaises ==
    /\ AtAccept
    /\ \/ srv' = [srv EXCEPT !.pc = "stopped", !.sock = "closed",
                             !.left = Exc("KeyboardInterrupt", "accept"),
                             !.out = Returned(None)]
       \/ srv' = [srv EXCEPT !.pc = "stopped", !.sock = "closed",
                             !.left = Exc("OSError", "accept"),
                             !.out = Exc("OSError", "accept")]
    /\ UNCHANGED <<envVars, runVars, handlerVars>>

\* handle_client has ended in its thread, by return or by an exception
TExit(t) ==
    /\ mode[t] = "handler"
    /\ h[t].pc = "done"
    /\ h' = [h EXCEPT ![t].pc = "exited"]
    /\ srv' = ThreadExit(srv, h[t].out)
    /\ UNCHANGED <<envVars, runVars, variant, conn, events>>

\* start_server is called; the clients connect later
ServerInit ==
    /\ EnvIdle
    /\ RunIdle
    /\ \E v \in {"delimiter", "fixed"} : variant = [t \in Threads |-> v]
    /\ conn = [t \in Threads |-> NoConn]
    /\ h = [t \in Threads |-> HOff]
    /\ events = [t \in Threads |-> <<>>]
    /\ srv = [SrvOff EXCEPT !.pc = "env"]

NextServer ==
    \/ SCheckEnv
    \/ SSocket
    \/ SBind
    \/ SListen
    \/ SAccept
    \/ SAcceptRaises
    \/ \E t \in Threads :
          \/ HRecvDelimiter(t)
          \/ HClean(t)
          \/ HRecvName(t)
          \/ HRecvFixed(t)
          \/ HAck(t)
          \/ HCall(t)
          \/ HReturn(t)
          \/ HSendResult(t)
          \/ HExcept(t)
          \/ HFinally(t)
          \/ PeerClose(t)
          \/ RpCreate(t)
          \/ RpWrite(t)
          \/ RpRun(t)
          \/ RpFinally(t)
          \/ TExit(t)

SpecServer == ServerInit /\ [][NextServer]_vars

\* ------------------------------------------------------------------------
\* Properties
\* ------------------------------------------------------------------------
Range(f) == {f[i] : i \in DOMAIN f}

\* an IP_ADDRESS that is set, non-empty and not only whitespace
ValidIp(ip) == ip # None /\ \E i \in 1..Len(ip) : ip[i] \notin WhitespaceChars

\* the number a string of decimal digits denotes
DecimalValue(p) ==
    LET term[i \in 0..Len(p)] ==
            IF i = 0 THEN 0 ELSE term[i - 1] + DigitValue(p[i]) * 10 ^ (Len(p) - i)
    IN  term[Len(p)]

\* a PORT that is a string of decimal digits denoting a positive integer
ValidPort(p) ==
    /\ p # None /\ p # <<>>
    /\ \A i \in 1..Len(p) : p[i] \in DecimalDigits
    /\ \E i \in 1..Len(p) : p[i] # "0"

C9_InvalidEnvironmentFallsBack ==
    (envOut # Pending /\ ~(ValidIp(envIP) /\ ValidPort(envPORT))) =>
        envOut = Returned([status |-> FALSE, PORT |-> 5000,
                           IP_ADDRESS |-> <<"0", ".", "0", ".", "0", ".", "0">>])

\* a valid address with a PORT that passes isdigit() and that int() refuses
\* was resolved to the fallback pair
C9_Witness ==
    /\ envOut # Pending
    /\ ValidIp(envIP) /\ envPORT = <<"1", "sup2">>
    /\ envOut.kind = "return" /\ envOut.value.status = FALSE

\* C1: once control has left run_pylint, the temporary file the invocation
\* created does not exist, whichever way it left
C1_TempFileGone ==
    [][\A t \in Threads :
          (rp[t].pc = "finally" /\ rp'[t].pc = "left" /\ rp[t].temp_file # NoPath) =>
              rp[t].temp_file \notin DOMAIN fs']_vars

\* C2: when an exception occurs in the creation of the file, the write or the
\* subprocess invocation, run_pylint returns a text embedding it and the
\* exception does not propagate
C2_ExceptionsBecomeText ==
    \A t \in Threads :
        (rp[t].pc = "left" /\ rp[t].result = Pending) =>
            /\ rp[t].out.kind = "return"
            /\ Head(rp[t].out.value) = "Error running Pylint: "

\* C10: with the tool writing its report to standard output and setting its
\* exit status from its messages, run_pylint returns a text with the rating
\* marker for the valid and the empty source and with the syntax-error marker
\* for the invalid source
C10_MarkersReturned ==
    \A t \in Threads :
        (rp[t].pc = "left" /\ rp[t].result # Pending) =>
            /\ rp[t].file_content \in {ValidCode, EmptyCode} =>
                   (rp[t].out.kind = "return" /\ RatingMarker \in Range(rp[t].out.value))
            /\ rp[t].file_content = InvalidCode =>
                   (rp[t].out.kind = "return" /\ SyntaxErrorMarker \in Range(rp[t].out.value))

HandlerThreads == {t \in Threads : mode[t] = "handler"}

\* where sub occurs in s
OccurrenceStarts(s, sub) ==
    {i \in 1..(Len(s) - Len(sub) + 1) : SubSeq(s, i, i + Len(sub) - 1) = sub}

\* the positions of s that no occurrence of the delimiter covers, ascending
KeptPositions(s) ==
    SelectSeq([i \in 1..Len(s) |-> i],
              LAMBDA j : \A i \in OccurrenceStarts(s, Delimiter) :
                            j < i \/ j >= i + Len(Delimiter))

\* s without the characters of any occurrence of the delimiter
WithoutDelimiters(s) ==
    LET kept == KeptPositions(s) IN [k \in 1..Len(kept) |-> s[kept[k]]]

\* a request that is a text followed immediately by the delimiter
Terminated(req) ==
    Len(req) >= Len(Delimiter)
    /\ SubSeq(req, Len(req) - Len(Delimiter) + 1, Len(req)) = Delimiter

\* the text of a terminated request, and the bytes the handler has received
TextOf(req) == Utf8Decode(SubSeq(req, 1, Len(req) - Len(Delimiter)))
ReceivedOf(c) == SubSeq(c.request, 1, Len(c.request) - Len(c.wire))

\* run_pylint has just been entered from the delimiter-framing handler of
\* thread t: rp[t].file_content is the text passed to it
Passed(t) == variant[t] = "delimiter" /\ rp[t].pc = "create"

\* C3 as stated: for a text followed immediately by '<<EOF>>', in any split
\* into recv chunks, the text passed to run_pylint is the original text
\* without the occurrences of the delimiter
C3_PayloadIsTextWithoutDelimiters ==
    \A t \in HandlerThreads :
        (Passed(t) /\ Terminated(conn[t].request)) =>
            rp[t].file_content = WithoutDelimiters(TextOf(conn[t].request))

\* C3 amended: for a text followed immediately by '<<EOF>>', in any split
\* into recv chunks, the text passed to run_pylint is what was received when
\* the loop stopped, which holds the delimiter, without the occurrences of the
\* delimiter; it is the original text without them when the text holds no
\* delimiter or nothing of the request was left unread
C3_PayloadIsReceivedWithoutDelimiters ==
    \A t \in HandlerThreads :
        (Passed(t) /\ Terminated(conn[t].request)) =>
            LET received == Utf8Decode(ReceivedOf(conn[t]))
                text == TextOf(conn[t].request)
            IN  /\ Contains(received, Delimiter)
                /\ rp[t].file_content = WithoutDelimiters(received)
                /\ (conn[t].wire = <<>> \/ ~Contains(text, Delimiter)) =>
                       rp[t].file_content = WithoutDelimiters(text)

\* a terminated request whose text holds the delimiter is passed on with a
\* part of it unread, and the payload is not the text without delimiters
C3_Witness ==
    \E t \in HandlerThreads :
        /\ Passed(t) /\ Terminated(conn[t].request)
        /\ conn[t].wire # <<>>
        /\ rp[t].file_content # WithoutDelimiters(TextOf(conn[t].request))

\* C4 as stated: the text handed to run_pylint holds no occurrence of
\* '<<EOF>>', nested spellings included
C4_PayloadHoldsNoDelimiter ==
    \A t \in HandlerThreads :
        Passed(t) => ~Contains(rp[t].file_content, Delimiter)

\* C4 amended: the text handed to run_pylint is the received buffer without
\* the characters of every occurrence of '<<EOF>>' it holds; an occurrence in
\* that text is made of characters that were not adjacent in the buffer, as
\* '<<EOF<<EOF>>>>' leaves '<<EOF>>'
C4_EveryOccurrenceOfBufferRemoved ==
    \A t \in HandlerThreads :
        Passed(t) =>
            LET kept == KeptPositions(h[t].buffer)
            IN  /\ rp[t].file_content = WithoutDelimiters(h[t].buffer)
                /\ \A i \in OccurrenceStarts(rp[t].file_content, Delimiter) :
                      kept[i + Len(Delimiter) - 1] - kept[i] >= Len(Delimiter)

\* a buffer with a nested spelling was cleaned and the payload passed on
\* holds the delimiter
C4_Witness ==
    \E t \in HandlerThreads :
        /\ Passed(t)
        /\ OccurrenceStarts(h[t].buffer, Delimiter) # {}
        /\ Contains(rp[t].file_content, Delimiter)

\* C5: on a connection whose payload was obtained and answered, the order is
\* receive, acknowledgement, analysis, result, close
C5_AckBeforeAnalysis ==
    \A t \in HandlerThreads :
        /\ \A i \in 1..Len(events[t]) :
              events[t][i] = "analysis" => \E j \in 1..(i - 1) : events[t][j] = "ack"
        /\ (h[t].pc = "done" /\ "result" \in Range(events[t])) =>
              events[t] = <<"recv", "ack", "analysis", "result", "close">>

\* C6: no exception of a receive, of the decoding of received bytes or of a
\* send leaves handle_client
C6_NoSocketExceptionEscapes ==
    \A t \in HandlerThreads :
        h[t].pc = "done" =>
            ~(h[t].out.kind = "raise" /\ h[t].out.origin \in {"recv", "decode", "send"})

\* C7: however a handler ends, it has closed the client socket exactly once,
\* and it does nothing on the socket after the close
C7_ClosedOnceAndLast ==
    \A t \in HandlerThreads :
        /\ \A i \in 1..Len(events[t]) : events[t][i] = "close" => i = Len(events[t])
        /\ h[t].pc = "done" => (events[t] # <<>> /\ events[t][Len(events[t])] = "close")

\* a handler ended by an exception that left it, the socket closed
C7_Witness ==
    \E t \in HandlerThreads :
        /\ h[t].pc = "done" /\ h[t].out.kind = "raise"
        /\ events[t][Len(events[t])] = "close"

\* thread t waits in recv for bytes that are not there, or for the lint tool
BlockedInRecv(t) ==
    /\ mode[t] = "handler" /\ h[t].pc \in {"name", "loop"}
    /\ conn[t].wire = <<>> /\ ~conn[t].peerClosed
InSubprocess(t) == mode[t] = "handler" /\ rp[t].pc = "run"

\* the result was sent to the client of thread t
Answered(t) == "result" \in Range(events[t])

\* any step of the handler of thread t
HandlerStep(t) ==
    \/ HRecvDelimiter(t) \/ HClean(t) \/ HRecvName(t) \/ HRecvFixed(t)
    \/ HAck(t) \/ HCall(t) \/ HReturn(t) \/ HSendResult(t)
    \/ HExcept(t) \/ HFinally(t)
    \/ RpCreate(t) \/ RpWrite(t) \/ RpRun(t) \/ RpFinally(t)

\* C12: once a handler thread is started the accept loop is at accept again
\* without waiting for it: while a handler is blocked in recv or in the
\* subprocess call, a connection can be accepted, and every handler that is
\* not itself blocked in recv can take its next step
C12_AcceptNotHeldUp ==
    \A t \in Started :
        (BlockedInRecv(t) \/ InSubprocess(t)) =>
            /\ (srv.pc = "accept" /\ srv.accepted < NumThreads) => ENABLED SAccept
            /\ \A u \in Started \ {t} :
                  (h[u].pc \notin {"done", "exited"} /\ ~BlockedInRecv(u)) =>
                      ENABLED HandlerStep(u)

\* the first handler is blocked in recv, nothing sent, and the connection
\* accepted after it has been answered
C12_Witness ==
    \E t, u \in Started :
        /\ t < u /\ srv.pc = "accept"
        /\ BlockedInRecv(t) /\ conn[t].sent = <<>>
        /\ Answered(u) /\ Len(conn[u].sent) = 2

\* a receive or a send of the handler of thread t has failed
SocketFailure(t) ==
    \/ h[t].pend.kind = "raise" /\ h[t].pend.origin \in {"recv", "send"}
    \/ h[t].out.kind = "raise" /\ h[t].out.origin \in {"recv", "send"}
    \/ "errmsg" \in Range(events[t])
    \/ "send_failed" \in Range(events[t])

\* C13: a socket failure in a handler, caught or not, does not end the accept
\* loop: after it the loop is at accept with the listening socket open and
\* accepting, unless accept itself was left by an exception
C13_HandlerFailureLeavesServer ==
    \A t \in Started :
        SocketFailure(t) =>
            \/ /\ srv.pc = "accept" /\ srv.sock = "listening"
               /\ srv.accepted < NumThreads => ENABLED SAccept
            \/ /\ srv.pc = "stopped" /\ srv.sock = "closed"
               /\ srv.left.kind = "raise" /\ srv.left.origin = "accept"

\* a send failure has left a handler and ended its thread; the loop is at
\* accept and the listening socket is open
C13_Witness ==
    \E t \in Started :
        /\ h[t].pc = "exited"
        /\ h[t].out.kind = "raise" /\ h[t].out.origin = "send"
        /\ srv.pc = "accept" /\ srv.sock = "listening"

\* the socket calls that send
SendTags == {"ack", "result", "errmsg", "send_failed"}

\* C14: a handler sends nothing, acknowledgement, result or error message,
\* while its receive loop has not ended, and it does not receive after a send
C14_RequestBeforeResponse ==
    \A t \in HandlerThreads :
        /\ h[t].pc \in {"name", "loop"} =>
              (conn[t].sent = <<>> /\ Range(events[t]) \cap SendTags = {})
        /\ \A i, j \in 1..Len(events[t]) :
              (i < j /\ events[t][i] \in SendTags) => events[t][j] # "recv"

\* a handler has received, acknowledged, sent the result and closed
C14_Witness ==
    \E t \in HandlerThreads :
        /\ h[t].pc = "done" /\ Len(conn[t].sent) = 2
        /\ events[t][1] = "recv" /\ Answered(t)
        /\ conn[t].request # <<>>

\* the receive loop of thread t was left by an exception of recv, or by one
\* of the decoding of the bytes received
RecvFailed(t) ==
    \/ h[t].pend.kind = "raise" /\ h[t].pend.origin = "recv"
    \/ Len(events[t]) >= 2 /\ events[t][2] \in {"errmsg", "send_failed"}
DecodeFailed(t) ==
    \/ h[t].pend.kind = "raise" /\ h[t].pend.origin = "decode"
    \/ h[t].out.kind = "raise" /\ h[t].out.origin = "decode"

\* C15: while the peer keeps the connection open and has not sent the
\* delimiter, the handler of the delimiter variant is in its receive loop
C15_StalledPeerBlocksHandler ==
    \A t \in HandlerThreads :
        (/\ variant[t] = "delimiter"
         /\ ~conn[t].peerClosed /\ ~RecvFailed(t)
         /\ ~Contains(Utf8Decode(ReceivedOf(conn[t])), Delimiter)) =>
            h[t].pc = "loop"

\* C16: when start_server has stopped after it created the listening
\* socket, the listening socket is closed
C16_ListeningSocketClosedOnStop ==
    (srv.pc = "stopped" /\ srv.sock # "none") => srv.sock = "closed"

\* C17: when recv returns no data before the delimiter has appeared, the
\* loop stops, run_pylint gets exactly the text received, and the
\* acknowledgement and the result are sent as for a terminated request
C17_EarlyCloseIsAnalysed ==
    \A t \in HandlerThreads :
        (/\ variant[t] = "delimiter"
         /\ conn[t].peerClosed /\ h[t].pc # "loop"
         /\ ~RecvFailed(t) /\ ~DecodeFailed(t)) =>
            LET text == Utf8Decode(conn[t].request)
            IN  /\ ~Contains(text, Delimiter)
                /\ h[t].buffer = text
                /\ Len(events[t]) >= 2 => events[t][2] = "analysis"
                /\ rp[t].pc = "create" => rp[t].file_content = text
                /\ (h[t].pc = "done" /\ h[t].out = Returned(None)
                        /\ "errmsg" \notin Range(events[t])) =>
                       conn[t].sent = <<AckMessage, h[t].pylint_output>>

\* the peer closed after a text without delimiter; the text was analysed
\* and acknowledgement and result were sent
C17_Witness ==
    \E t \in HandlerThreads :
        /\ variant[t] = "delimiter" /\ conn[t].peerClosed
        /\ conn[t].request # <<>>
        /\ h[t].pc = "done" /\ h[t].file_content = Utf8Decode(conn[t].request)
        /\ conn[t].sent = <<AckMessage, h[t].pylint_output>>

\* an invocation of run_pylint that has created its file and not yet left
InFlight(t) == rp[t].pc \in {"write", "run", "finally"} /\ rp[t].temp_file # NoPath

\* C18: invocations in flight have distinct temporary files; the file the
\* tool is run on holds the content of its own invocation; the file of an
\* invocation is there until its own finally clause, which removes no other
\* file; the result sent on a connection is a report on its own payload
C18_HandlersIsolated ==
    /\ \A t, u \in Threads :
          (t # u /\ InFlight(t) /\ InFlight(u)) => rp[t].temp_file # rp[u].temp_file
    /\ \A t \in Threads :
          /\ rp[t].pc = "run" =>
                /\ rp[t].temp_file_path = rp[t].temp_file
                /\ rp[t].temp_file_path \in DOMAIN fs
                /\ fs[rp[t].temp_file_path] = rp[t].file_content
          /\ InFlight(t) => rp[t].temp_file \in DOMAIN fs
          /\ (rp[t].pc = "finally" /\ rp[t].temp_file_path # NoPath) =>
                rp[t].temp_file_path = rp[t].temp_file
    /\ \A t \in Started :
          Answered(t) =>
              conn[t].sent[Len(conn[t].sent)] \in
                  {RpSelect(res).value : res \in ToolOutcomes(h[t].file_content)}

\* the tool is about to be run for two connections at once, on different
\* payloads
C18_Witness ==
    \E t, u \in Started :
        /\ rp[t].pc = "run" /\ rp[u].pc = "run"
        /\ rp[t].file_content # rp[u].file_content

\* how often the handler of thread t has called run_pylint
Analyses(t) == Cardinality({i \in 1..Len(events[t]) : events[t][i] = "analysis"})

\* C19: a handler calls run_pylint once when the payload was obtained, and
\* not at all when the receive failed
C19_OneAnalysisPerConnection ==
    \A t \in HandlerThreads :
        h[t].pc = "done" =>
            /\ Analyses(t) <= 1
            /\ Answered(t) => Analyses(t) = 1
            /\ RecvFailed(t) => Analyses(t) = 0

\* the request of a fixed-header connection, cut after the first k bytes:
\* the file name and the payload
FixedFraming(t, k) ==
    LET req == conn[t].request
    IN  /\ req # <<>> => k >= 1
        /\ k <= RecvBufSize
        /\ h[t].file_name = str_strip(Utf8Decode(SubSeq(req, 1, k)))
        /\ rp[t].file_content = Utf8Decode(SubSeq(req, k + 1, Len(req)))

\* the text given to run_pylint by the fixed-header handler is all that
\* followed the first recv, up to the close of the peer
FixedPayload(t) ==
    (variant[t] = "fixed" /\ rp[t].pc = "create") =>
        /\ conn[t].peerClosed /\ conn[t].wire = <<>>
        /\ \E k \in 0..Len(conn[t].request) : FixedFraming(t, k)

\* C20 as stated: the first recv is the file name and no part of the
\* payload, the payload is all that the later recv calls got until the peer
\* closed, and there is no send and no analysis before the peer has closed
C20_NothingBeforePeerCloses ==
    \A t \in HandlerThreads :
        /\ FixedPayload(t)
        /\ (variant[t] = "fixed" /\ ~conn[t].peerClosed) =>
              (conn[t].sent = <<>> /\ "analysis" \notin Range(events[t]))

\* C20 amended: the first recv is the file name and no part of the payload,
\* the payload is all that the later recv calls got until the peer closed,
\* and before the peer has closed there is no analysis and nothing is sent
\* but the error message that follows a recv that raised
C20_FixedHeaderFraming ==
    \A t \in HandlerThreads :
        /\ FixedPayload(t)
        /\ (variant[t] = "fixed" /\ ~conn[t].peerClosed) =>
              /\ "analysis" \notin Range(events[t])
              /\ conn[t].sent # <<>> =>
                    /\ conn[t].sent = <<ServerErrorMessage("ConnectionResetError")>>
                    /\ SubSeq(events[t], 1, 2) = <<"recv", "errmsg">>

\* a request in two parts was received in two recv calls and the peer closed:
\* the first part is the file name, the second the payload
C20_Witness ==
    \E t \in HandlerThreads :
        /\ variant[t] = "fixed" /\ rp[t].pc = "create"
        /\ h[t].file_name = <<"e_acute">>
        /\ rp[t].file_content = Delimiter

====
